---- MODULE Spec2Model ----
(***************************************************************************)
(* Sell-first arbitrage execution (core/trade_executor.py), the order      *)
(* supervisor (core/order_manager.py) and the engine loop                  *)
(* (business/arbitrage_engine.py) over a shared balance ledger and the     *)
(* Trade table.                                                            *)
(*                                                                         *)
(* Amounts are XRP units, prices are integer price units, so that          *)
(* total_value = amount * price stays an integer.  Threads interleave at   *)
(* the exchange round trips; the ledger operations are atomic.             *)
(***************************************************************************)
EXTENDS Integers, Sequences, FiniteSets, TLC

(* ------------------------------ bounds ------------------------------- *)
MaxExecs == 2      \* calls of execute_arbitrage_trade, the executor alone
MaxCalls == 1      \* calls of execute_arbitrage_trade beside the supervisor
MaxPrice == 2      \* prices range over 1..MaxPrice
MaxLots == 2       \* the initial XRP balance is 1..MaxLots trade amounts
MaxCount == 1      \* timeout_counts is kept up to MaxCount where no breaker is studied

(* ------------------------- program constants ------------------------- *)
TradeAmount == 100          \* TradingConfig.trade_amount default
MarketTimeout == 10         \* timeout_configs['market_order']
ArbitrageTimeout == 20      \* timeout_configs['arbitrage_order']
LimitTimeout == 30          \* timeout_configs['limit_order']
LargeOrder == 500           \* _classify_order_type: amount > 500
BreakerThreshold == 5       \* _handle_timeout_order: timeout_counts > 5
DefaultOrderTimeout == 30   \* check_order_timeouts(timeout_seconds=30)

Currencies == {"XRP", "USDT", "USDC"}
Pairs == {"XRP/USDT", "XRP/USDC"}
Prices == 1..MaxPrice
OrderTypes == {"limit_order", "market_order", "arbitrage_order"}
Categories == {"order_timeout", "large_loss", "execution_failure", "system_error"}

\* 'USDT' if 'USDT' in pair else 'USDC'
Stable(pair) == IF pair = "XRP/USDT" THEN "USDT" ELSE "USDC"

OtherPair(pair) == IF pair = "XRP/USDT" THEN "XRP/USDC" ELSE "XRP/USDT"

VARIABLES
    total,          \* Balance.amount per currency
    locked,         \* Balance.locked per currency
    trades,         \* the committed rows of the Trade table, by id
    orders,         \* the orders created on the exchange, by order id
    ex,             \* the frame of the running execute_arbitrage_trade call
    ret,            \* what the last execute_arbitrage_trade call returned
    pre,            \* the ledger as it was when the running call was entered
    sup,            \* per thread: the running batch operation over Trades
    timeout_counts, \* OrderManager.timeout_counts
    order_cache,    \* OrderManager.order_cache (ids of cached Trades)
    breaker,        \* circuit-breaker activation flag per category
    loop,           \* the frame of the engine's main loop
    calls,          \* number of execute_arbitrage_trade calls made
    limits          \* the bounds this run is explored under

vars == <<total, locked, trades, orders, ex, ret, pre, sup, timeout_counts,
          order_cache, breaker, loop, calls, limits>>

(* ------------------------------ ledger ------------------------------- *)
\* The ledger value the operations below transform.
Ledger == [total |-> total, locked |-> locked]

\* available = total - locked
Available(L, c) == L.total[c] - L.locked[c]

\* check_sufficient_balance(currency, amount)
check_sufficient_balance(L, c, a) == Available(L, c) >= a

\* lock(currency, amount): InsufficientFunds if available < amount.
lock_balance(L, c, a) ==
    IF Available(L, c) < a
    THEN [ok |-> FALSE, l |-> L]
    ELSE [ok |-> TRUE, l |-> [L EXCEPT !.locked[c] = @ + a]]

\* unlock(currency, amount): OverUnlock if amount > locked.
unlock_balance(L, c, a) ==
    IF a > L.locked[c]
    THEN [ok |-> FALSE, l |-> L]
    ELSE [ok |-> TRUE, l |-> [L EXCEPT !.locked[c] = @ - a]]

\* adjust(currency, delta): NegativeBalance if the result would be negative.
update_balance(L, c, d) ==
    IF L.total[c] + d < 0
    THEN [ok |-> FALSE, l |-> L]
    ELSE [ok |-> TRUE, l |-> [L EXCEPT !.total[c] = @ + d]]

LedgerOp(L, op) ==
    CASE op[1] = "lock" -> lock_balance(L, op[2], op[3])
      [] op[1] = "unlock" -> unlock_balance(L, op[2], op[3])
      [] OTHER -> update_balance(L, op[2], op[3])

\* A sequence of ledger calls inside one try block: the first call that
\* fails raises, and the calls after it do not run.
RECURSIVE RunOps(_, _)
RunOps(L, ops) ==
    IF ops = <<>>
    THEN [ok |-> TRUE, l |-> L]
    ELSE LET r == LedgerOp(L, Head(ops))
         IN IF r.ok THEN RunOps(r.l, Tail(ops)) ELSE r

\* try: unlock_balance(...) except: pass
TryUnlock(L, c, a) == unlock_balance(L, c, a).l

(* ------------------------------ trades ------------------------------- *)
NoPL == <<>>

\* Trade(trade_type, pair, amount, price, total_value, status='pending').
\* reserved is the amount the executor locked for the leg; the code keeps it
\* in no column, the properties below read it.
NewTrade(type, pair, amount, price, res) ==
    [trade_type |-> type, pair |-> pair, amount |-> amount, price |-> price,
     total_value |-> amount * price, status |-> "pending", order_id |-> 0,
     profit_loss |-> NoPL, age |-> 0, reserved |-> res]

NoTrade ==
    [trade_type |-> "none", pair |-> "none", amount |-> 0, price |-> 0,
     total_value |-> 0, status |-> "none", order_id |-> 0,
     profit_loss |-> NoPL, age |-> 0, reserved |-> 0]

NoOpp == [amount |-> 0, sell_pair |-> "none", buy_pair |-> "none",
          sell_price |-> 0, buy_price |-> 0]

\* The opportunities the engine hands over: the higher-priced pair is sold.
Opportunities ==
    { [amount |-> TradeAmount, sell_pair |-> sp, buy_pair |-> OtherPair(sp),
       sell_price |-> s, buy_price |-> b] :
         sp \in Pairs, s \in Prices, b \in Prices }

DetectedOpportunities == { o \in Opportunities : o.sell_price > o.buy_price }

IdleFrame == [pc |-> "idle", opp |-> NoOpp, trade |-> NoTrade, sell |-> 0]

NoReturn == [kind |-> "none", sell |-> 0, buy |-> 0, profit_loss |-> 0]
NilReturn == [kind |-> "nil", sell |-> 0, buy |-> 0, profit_loss |-> 0]

\* The replies of the exchange connector; "raise" is an exception.
StatusReplies == {"closed", "partial", "open", "raise"}
CancelReplies == {"true", "false", "raise"}
CreateReplies == Prices \cup {0}     \* the fill price, 0 for an exception

(* ----------------------------- executor ------------------------------ *)
SetLedger(L) == total' = L.total /\ locked' = L.locked

NoPre == [call |-> [total |-> <<>>, locked |-> <<>>],
          leg |-> [total |-> <<>>, locked |-> <<>>], ntrades |-> 0, norders |-> 0]

\* The ledger, the Trade table and the exchange as a call or a leg finds them.
EnterCall == IF limits.track
             THEN [call |-> Ledger, leg |-> Ledger, ntrades |-> Len(trades),
                   norders |-> Len(orders)]
             ELSE NoPre
EnterLeg == IF limits.track THEN [pre EXCEPT !.leg = Ledger] ELSE NoPre

SupervisorFrame == <<sup, timeout_counts, order_cache, breaker, loop, limits>>

\* A handler that takes the amount off the locked balance without the
\* ledger's test; C22 tells it from SellHandler.
SellHandlerUnchecked(L, amount) == [L EXCEPT !.locked["XRP"] = @ - amount]

\* A handler that leaves the lock in place; C8 tells it from SellHandler.
SellHandlerKeepsLock(L, amount) == L

\* except-handler of _execute_sell_order: rollback, unlock XRP, return None.
SellHandler(L, amount) == TryUnlock(L, "XRP", amount)

\* except-handler of _execute_buy_order: rollback, unlock the stablecoin
\* (currency and required_value are always bound), return None.
BuyHandler(L, currency, required_value) == TryUnlock(L, currency, required_value)

\* `return sell_trade`: the buy leg returned None after the sell leg returned
\* its Trade.
SellTradeReturn(sell) == [kind |-> "trade", sell |-> sell, buy |-> 0, profit_loss |-> 0]

\* execute_arbitrage_trade up to the first exchange round trip: the
\* sufficiency check and the lock of _execute_sell_order.
ExecuteArbitrageTrade(opp) ==
    /\ ex.pc = "idle"
    /\ sup["engine"].op = "none"
    /\ loop.pc = "cycle"
    /\ calls < limits.execs
    /\ calls' = calls + 1
    /\ pre' = EnterCall
    /\ IF ~check_sufficient_balance(Ledger, "XRP", opp.amount)
       THEN /\ SetLedger(SellHandler(Ledger, opp.amount))
            /\ ex' = IdleFrame
            /\ ret' = NilReturn
       ELSE /\ SetLedger(lock_balance(Ledger, "XRP", opp.amount).l)
            /\ ex' = [pc |-> "sell_submit", opp |-> opp, sell |-> 0,
                      trade |-> NewTrade("sell", opp.sell_pair, opp.amount,
                                         opp.sell_price, opp.amount)]
            /\ ret' = NoReturn
    /\ UNCHANGED <<trades, orders>>
    /\ UNCHANGED SupervisorFrame

\* api.create_order(side='sell') and the order details written to the Trade.
SellCreateOrder(reply) ==
    /\ ex.pc = "sell_submit"
    /\ IF reply = 0
       THEN /\ SetLedger(SellHandler(Ledger, ex.opp.amount))
            /\ ex' = IdleFrame
            /\ ret' = NilReturn
            /\ UNCHANGED orders
       ELSE /\ orders' = Append(orders, [side |-> "sell", pair |-> ex.trade.pair,
                                         amount |-> ex.opp.amount])
            /\ ex' = [ex EXCEPT !.pc = "sell_poll",
                                !.trade.order_id = Len(orders) + 1,
                                !.trade.price = reply,
                                !.trade.total_value = ex.opp.amount * reply]
            /\ UNCHANGED <<total, locked, ret>>
    /\ UNCHANGED <<trades, pre, calls>>
    /\ UNCHANGED SupervisorFrame

\* The ledger calls of a sell leg found closed.
SellSettlement(trade) ==
    << <<"unlock", "XRP", trade.amount>>,
       <<"update", "XRP", 0 - trade.amount>>,
       <<"update", Stable(trade.pair), trade.total_value>> >>

\* api.get_order_status for the sell order, the settlement and the commit.
SellOrderStatus(reply) ==
    /\ ex.pc = "sell_poll"
    /\ LET r == IF reply = "closed"
                THEN RunOps(Ledger, SellSettlement(ex.trade))
                ELSE [ok |-> TRUE, l |-> Ledger]
           t == IF reply = "closed"
                THEN [ex.trade EXCEPT !.status = "completed"]
                ELSE ex.trade
       IN IF reply = "raise" \/ ~r.ok
          THEN /\ SetLedger(SellHandler(r.l, ex.opp.amount))
               /\ ex' = IdleFrame
               /\ ret' = NilReturn
               /\ UNCHANGED trades
          ELSE /\ SetLedger(r.l)
               /\ trades' = Append(trades, t)
               /\ ex' = [ex EXCEPT !.pc = "buy_lock", !.trade = NoTrade,
                                   !.sell = Len(trades) + 1]
               /\ UNCHANGED ret
    /\ UNCHANGED <<orders, pre, calls>>
    /\ UNCHANGED SupervisorFrame

\* required_value = amount * expected_price
RequiredValue(opp) == opp.amount * opp.buy_price

\* _execute_buy_order up to the first exchange round trip.
BuyLock ==
    /\ ex.pc = "buy_lock"
    /\ pre' = EnterLeg
    /\ LET cur == Stable(ex.opp.buy_pair)
           req == RequiredValue(ex.opp)
       IN IF ~check_sufficient_balance(Ledger, cur, req)
          THEN /\ SetLedger(BuyHandler(Ledger, cur, req))
               /\ ex' = IdleFrame
               /\ ret' = SellTradeReturn(ex.sell)
          ELSE /\ SetLedger(lock_balance(Ledger, cur, req).l)
               /\ ex' = [ex EXCEPT !.pc = "buy_submit",
                                   !.trade = NewTrade("buy", ex.opp.buy_pair,
                                                      ex.opp.amount,
                                                      ex.opp.buy_price, req)]
               /\ UNCHANGED ret
    /\ UNCHANGED <<trades, orders, calls>>
    /\ UNCHANGED SupervisorFrame

\* api.create_order(side='buy') and the order details written to the Trade.
BuyCreateOrder(reply) ==
    /\ ex.pc = "buy_submit"
    /\ IF reply = 0
       THEN /\ SetLedger(BuyHandler(Ledger, Stable(ex.opp.buy_pair),
                                    RequiredValue(ex.opp)))
            /\ ex' = IdleFrame
            /\ ret' = SellTradeReturn(ex.sell)
            /\ UNCHANGED orders
       ELSE /\ orders' = Append(orders, [side |-> "buy", pair |-> ex.trade.pair,
                                         amount |-> ex.opp.amount])
            /\ ex' = [ex EXCEPT !.pc = "buy_poll",
                                !.trade.order_id = Len(orders) + 1,
                                !.trade.price = reply,
                                !.trade.total_value = ex.opp.amount * reply]
            /\ UNCHANGED <<total, locked, ret>>
    /\ UNCHANGED <<trades, pre, calls>>
    /\ UNCHANGED SupervisorFrame

\* A settlement that leaves the leg's lock in place; C9 tells it from
\* BuySettlement.
BuySettlementKeepsLock(trade, required_value) ==
    << <<"update", Stable(trade.pair), 0 - trade.total_value>>,
       <<"update", "XRP", trade.amount>> >>

\* The ledger calls of a buy leg found closed: the unlock releases
\* required_value, the debit is the Trade's total_value at the fill price.
BuySettlement(trade, required_value) ==
    << <<"unlock", Stable(trade.pair), required_value>>,
       <<"update", Stable(trade.pair), 0 - trade.total_value>>,
       <<"update", "XRP", trade.amount>> >>

\* sell_value - buy_value, split over the two Trades (each carries half).
ProfitLoss(sell_trade, buy_trade) == sell_trade.total_value - buy_trade.total_value

\* api.get_order_status for the buy order, the settlement and the commit,
\* then the profit/loss written to both Trades and the result dict.
BuyOrderStatus(reply) ==
    /\ ex.pc = "buy_poll"
    /\ LET req == RequiredValue(ex.opp)
           r == IF reply = "closed"
                THEN RunOps(Ledger, BuySettlement(ex.trade, req))
                ELSE [ok |-> TRUE, l |-> Ledger]
           t == IF reply = "closed"
                THEN [ex.trade EXCEPT !.status = "completed"]
                ELSE ex.trade
           pl == ProfitLoss(trades[ex.sell], t)
       IN IF reply = "raise" \/ ~r.ok
          THEN /\ SetLedger(BuyHandler(r.l, Stable(ex.opp.buy_pair), req))
               /\ ret' = SellTradeReturn(ex.sell)
               /\ UNCHANGED trades
          ELSE /\ SetLedger(r.l)
               /\ trades' = Append([trades EXCEPT ![ex.sell].profit_loss = <<pl>>],
                                   [t EXCEPT !.profit_loss = <<pl>>])
               /\ ret' = [kind |-> "dict", sell |-> ex.sell,
                          buy |-> Len(trades) + 1, profit_loss |-> pl]
    /\ ex' = IdleFrame
    /\ UNCHANGED <<orders, pre, calls>>
    /\ UNCHANGED SupervisorFrame

(* ---------------------------- supervisor ----------------------------- *)
Threads == {"monitor", "engine", "api"}

\* A thread between two batch operations.
IdleBatch == [op |-> "none", snap |-> <<>>, dirty |-> <<>>]

ExecutorFrame == <<ex, ret, pre, calls, orders>>

\* The ages the timeout comparisons can tell apart: not over any timeout,
\* just over the market timeout, just over the limit timeout (which is also
\* the default of check_order_timeouts).  No Trade is classified as an
\* arbitrage order, so no comparison reads the arbitrage timeout.
AgePoints == {0, MarketTimeout + 1, LimitTimeout + 1}

MaxAge == LimitTimeout + 1

NextAge(a) == IF a >= MaxAge THEN a
              ELSE CHOOSE n \in AgePoints :
                      n > a /\ \A m \in AgePoints : m > a => n <= m

Ids(T) == [i \in 1..Len(T) |-> i]

\* Trade.query.filter_by(status='pending').all()
PendingIds(T) == SelectSeq(Ids(T), LAMBDA i : T[i].status = "pending")

\* _classify_order_type: Trade has no order_type column, and no pair holds
\* the word 'arbitrage'.
classify_order_type(trade) ==
    IF trade.amount > LargeOrder THEN "limit_order"
    ELSE IF trade.pair \notin Pairs THEN "arbitrage_order"
    ELSE "market_order"

\* timeout_configs.get(order_type, 30)
timeout_configs(order_type) ==
    CASE order_type = "limit_order" -> LimitTimeout
      [] order_type = "market_order" -> MarketTimeout
      [] order_type = "arbitrage_order" -> ArbitrageTimeout
      [] OTHER -> LimitTimeout

\* The pending Trades _check_timeout_orders hands to _handle_timeout_order:
\* order_age > timeout_seconds, with current_time read once per pass.
TimedOutIds(T) ==
    SelectSeq(PendingIds(T),
              LAMBDA i : T[i].age > timeout_configs(classify_order_type(T[i])))

\* COMMIT of a session: the status written to each dirty Trade.
Commit(T, dirty) ==
    [i \in 1..Len(T) |->
        IF i \in DOMAIN dirty THEN [T[i] EXCEPT !.status = dirty[i]] ELSE T[i]]

\* _unlock_trade_balances: the unlock, its failure logged and swallowed.
unlock_trade_balances(L, trade) ==
    IF trade.trade_type = "sell"
    THEN TryUnlock(L, "XRP", trade.amount)
    ELSE TryUnlock(L, Stable(trade.pair), trade.total_value)

\* _update_balances_for_completed_trade: the calls up to the first that
\* fails, the failure logged and swallowed.
update_balances_for_completed_trade(L, trade) ==
    IF trade.trade_type = "sell"
    THEN RunOps(L, SellSettlement(trade)).l
    ELSE RunOps(L, BuySettlement(trade, trade.total_value)).l

\* The status _handle_timeout_order writes ("" for none) for the replies of
\* get_order_status and cancel_order.
TimeoutStatus(trade, status, cancel) ==
    IF trade.order_id = 0 THEN ""
    ELSE CASE status = "closed" -> "completed"
           [] status = "partial" -> ""
           [] status = "raise" -> "timeout_error"
           [] OTHER -> CASE cancel = "true" -> "timeout_cancelled"
                         [] cancel = "false" -> "timeout_failed"
                         [] OTHER -> "timeout_error"

\* The ledger after _handle_timeout_order's branch for that status.
TimeoutLedger(L, trade, new_status) ==
    CASE new_status = "completed" -> update_balances_for_completed_trade(L, trade)
      [] new_status = "" -> L
      [] OTHER -> unlock_trade_balances(L, trade)

\* timeout_counts[order_type] + 1; the count is kept up to limits.counts.
CountTimeout(counts, order_type) ==
    [counts EXCEPT ![order_type] =
        IF @ < limits.counts THEN @ + 1 ELSE @]

\* What a thread does after its _check_timeout_orders pass: the monitor
\* thread goes on to _update_pending_orders (the Trades with an order id
\* that order_cache does not hold; _cleanup_cache drops an entry after 300 s,
\* longer than the runs explored here).
AfterCheckTimeout(t, T) ==
    LET todo == SelectSeq(PendingIds(T),
                          LAMBDA i : T[i].order_id # 0 /\ i \notin order_cache)
    IN IF t = "monitor" /\ todo # <<>>
       THEN [op |-> "update_pending", snap |-> todo, dirty |-> <<>>]
       ELSE IdleBatch

\* One pass of _monitoring_loop, or the engine's maintenance call: the query
\* of _check_timeout_orders.  The monitor thread starts no pass once
\* stop_monitoring has cleared monitoring_active.
CheckTimeoutOrders(t) ==
    /\ t \in {"monitor", "engine"}
    /\ sup[t].op = "none"
    /\ t = "engine" => ex.pc = "idle" /\ loop.pc = "cycle"
    /\ t = "monitor" => loop.pc \notin {"stopping", "stopped"}
    /\ LET due == TimedOutIds(trades)
           nxt == IF due # <<>>
                  THEN [op |-> "check_timeout", snap |-> due, dirty |-> <<>>]
                  ELSE AfterCheckTimeout(t, trades)
       IN /\ nxt # IdleBatch
          /\ sup' = [sup EXCEPT ![t] = nxt]
    /\ UNCHANGED <<total, locked, trades, timeout_counts, order_cache, breaker,
                   loop, limits>>
    /\ UNCHANGED ExecutorFrame

\* activate_circuit_breaker(category, ...): the category becomes active.
activate_circuit_breaker(b, category) == [b EXCEPT ![category] = TRUE]

\* A test that fires one timeout early; C11 tells it from RequestsBreaker.
RequestsBreakerEarly(count) == count >= BreakerThreshold

\* if self.timeout_counts[order_type] > 5
RequestsBreaker(count) == count > BreakerThreshold

\* _handle_timeout_order for the next Trade of the pass, with its commit.
HandleTimeoutOrder(t, status, cancel) ==
    /\ sup[t].op = "check_timeout"
    /\ LET i == Head(sup[t].snap)
           trade == trades[i]
           new_status == TimeoutStatus(trade, status, cancel)
           order_type == classify_order_type(trade)
           counts == CountTimeout(timeout_counts, order_type)
           T == IF new_status = "" THEN trades
                ELSE Commit(trades, i :> new_status)
       IN /\ SetLedger(TimeoutLedger(Ledger, trade, new_status))
          /\ timeout_counts' = counts
          /\ breaker' = IF RequestsBreaker(counts[order_type])
                        THEN activate_circuit_breaker(breaker, "order_timeout")
                        ELSE breaker
          /\ trades' = T
          /\ sup' = [sup EXCEPT ![t] =
                        IF Tail(sup[t].snap) # <<>>
                        THEN [@ EXCEPT !.snap = Tail(@)]
                        ELSE AfterCheckTimeout(t, T)]
    /\ UNCHANGED <<order_cache, loop, limits>>
    /\ UNCHANGED ExecutorFrame

\* The end of a batch: commit, or rollback after an exception left the loop.
EndBatch(T, b, rest, raised) ==
    IF raised THEN [trades |-> T, batch |-> IdleBatch]
    ELSE IF rest = <<>> THEN [trades |-> Commit(T, b.dirty), batch |-> IdleBatch]
    ELSE [trades |-> T, batch |-> [b EXCEPT !.snap = rest]]

\* _update_pending_orders for the next Trade of the batch; an exception of
\* get_order_status leaves the loop and rolls the batch back.
UpdatePendingOrders(status) ==
    /\ sup["monitor"].op = "update_pending"
    /\ LET b == sup["monitor"]
           i == Head(b.snap)
           trade == trades[i]
           closed == status = "closed"
           b2 == IF closed THEN [b EXCEPT !.dirty = (i :> "completed") @@ @] ELSE b
           e == EndBatch(trades, b2, Tail(b.snap), status = "raise")
       IN /\ SetLedger(IF closed
                       THEN update_balances_for_completed_trade(Ledger, trade)
                       ELSE Ledger)
          /\ order_cache' = IF status = "raise" THEN order_cache
                            ELSE order_cache \cup {i}
          /\ trades' = e.trades
          /\ sup' = [sup EXCEPT !["monitor"] = e.batch]
    /\ UNCHANGED <<timeout_counts, breaker, loop, limits>>
    /\ UNCHANGED ExecutorFrame

(* ------------------------- cancel operations ------------------------- *)
\* The Trades check_order_timeouts queries: pending, created before cutoff.
OverdueIds(T) ==
    SelectSeq(PendingIds(T), LAMBDA i : T[i].age > DefaultOrderTimeout)

\* The query that opens cancel_pending_orders, check_order_timeouts or
\* force_cancel_all_pending.
StartCancelOperation(op) ==
    /\ sup["api"].op = "none"
    /\ LET snap == IF op = "check_order_timeouts" THEN OverdueIds(trades)
                   ELSE PendingIds(trades)
       IN /\ snap # <<>>
          /\ sup' = [sup EXCEPT !["api"] = [op |-> op, snap |-> snap, dirty |-> <<>>]]
    /\ UNCHANGED <<total, locked, trades, timeout_counts, order_cache, breaker,
                   loop, limits>>
    /\ UNCHANGED ExecutorFrame

\* The currency and the amount the cancel operations unlock for a Trade.
UnlockCurrency(trade) == IF trade.trade_type = "sell" THEN "XRP" ELSE Stable(trade.pair)
UnlockAmount(trade) == IF trade.trade_type = "sell" THEN trade.amount ELSE trade.total_value

\* cancel_pending_orders for the next Trade: cancel_order with its errors
\* swallowed, status 'cancelled', the unlock; an unlock that raises leaves the
\* loop and rolls the batch back.
CancelPendingOrders(cancel) ==
    /\ sup["api"].op = "cancel_pending_orders"
    /\ LET b == sup["api"]
           i == Head(b.snap)
           trade == trades[i]
           r == unlock_balance(Ledger, UnlockCurrency(trade), UnlockAmount(trade))
           b2 == [b EXCEPT !.dirty = (i :> "cancelled") @@ @]
           e == EndBatch(trades, b2, Tail(b.snap), ~r.ok)
       IN /\ SetLedger(r.l)
          /\ trades' = e.trades
          /\ sup' = [sup EXCEPT !["api"] = e.batch]
    /\ UNCHANGED <<timeout_counts, order_cache, breaker, loop, limits>>
    /\ UNCHANGED ExecutorFrame

\* check_order_timeouts for the next Trade: 'completed' if the order is
\* closed, else 'timeout' and the unlock; the bare except sets 'timeout'.
CheckOrderTimeouts(status) ==
    /\ sup["api"].op = "check_order_timeouts"
    /\ LET b == sup["api"]
           i == Head(b.snap)
           trade == trades[i]
           new_status == IF status = "closed" THEN "completed" ELSE "timeout"
           b2 == IF trade.order_id = 0 THEN b
                 ELSE [b EXCEPT !.dirty = (i :> new_status) @@ @]
           e == EndBatch(trades, b2, Tail(b.snap), FALSE)
       IN /\ SetLedger(IF trade.order_id # 0 /\ status \in {"partial", "open"}
                       THEN TryUnlock(Ledger, UnlockCurrency(trade), UnlockAmount(trade))
                       ELSE Ledger)
          /\ trades' = e.trades
          /\ sup' = [sup EXCEPT !["api"] = e.batch]
    /\ UNCHANGED <<timeout_counts, order_cache, breaker, loop, limits>>
    /\ UNCHANGED ExecutorFrame

\* The status force_cancel_all_pending writes for the reply of cancel_order.
ForceCancelStatus(trade, cancel) ==
    IF trade.order_id = 0 THEN "force_cancelled"
    ELSE CASE cancel = "true" -> "force_cancelled"
           [] cancel = "false" -> "cancel_failed"
           [] OTHER -> "cancel_error"

\* force_cancel_all_pending for the next Trade.
ForceCancelAllPending(cancel) ==
    /\ sup["api"].op = "force_cancel_all_pending"
    /\ LET b == sup["api"]
           i == Head(b.snap)
           trade == trades[i]
           new_status == ForceCancelStatus(trade, cancel)
           b2 == [b EXCEPT !.dirty = (i :> new_status) @@ @]
           e == EndBatch(trades, b2, Tail(b.snap), FALSE)
       IN /\ SetLedger(IF new_status = "force_cancelled"
                       THEN unlock_trade_balances(Ledger, trade)
                       ELSE Ledger)
          /\ trades' = e.trades
          /\ sup' = [sup EXCEPT !["api"] = e.batch]
    /\ UNCHANGED <<timeout_counts, order_cache, breaker, loop, limits>>
    /\ UNCHANGED ExecutorFrame

(* ------------------------------- time -------------------------------- *)
\* Time passes: every pending Trade grows older (the age of a Trade is read
\* only while it is pending).
Tick ==
    /\ \E i \in 1..Len(trades) : trades[i].status = "pending" /\ trades[i].age < MaxAge
    /\ trades' = [i \in 1..Len(trades) |->
                    IF trades[i].status = "pending"
                    THEN [trades[i] EXCEPT !.age = NextAge(@)]
                    ELSE trades[i]]
    /\ UNCHANGED <<total, locked, sup, timeout_counts, order_cache, breaker,
                   loop, limits>>
    /\ UNCHANGED ExecutorFrame

(* -------------------------- risk controller -------------------------- *)
\* Amounts are whole XRP and whole stablecoin units.  spread_percentage,
\* spread_threshold and the 0.05 ceiling are plain numbers in the code; the
\* model keeps each of them in ten-thousandths (0.3854 is 3854, 0.003 is 30).
DailyMaxVolume == 5000       \* TradingConfig.daily_max_volume default
RiskBufferPct == 10          \* TradingConfig.risk_buffer default 0.1, in percent
MaxPendingOrders == 3        \* TradingConfig.max_pending_orders default
SpreadThreshold == 30        \* TradingConfig.spread_threshold default 0.003
SuspiciousSpread == 500      \* _check_spread_validity: current_spread > 0.05
EstimatedPrice == 52         \* _check_balance_safety: estimated_price = 0.52, in cents
MinHistory == 5              \* _check_price_volatility: len(recent_prices) < 5
VolatilityLimitPct == 2      \* _check_price_volatility: volatility > 0.02

\* ((higher - lower) / lower) * 100 of two prices in 0.0001 units, in
\* ten-thousandths and truncated.
SpreadPercentage(higher, lower) == ((higher - lower) * 1000000) \div lower

RECURSIVE SeqMax(_)
SeqMax(s) == IF Len(s) = 1 THEN s[1]
             ELSE LET m == SeqMax(Tail(s)) IN IF s[1] > m THEN s[1] ELSE m

RECURSIVE SeqMin(_)
SeqMin(s) == IF Len(s) = 1 THEN s[1]
             ELSE LET m == SeqMin(Tail(s)) IN IF s[1] < m THEN s[1] ELSE m

\* Recent PriceHistory rows, in 0.0001 units: too few, calm, and a swing above 2%.
Histories == {<<>>, <<5200, 5205, 5210, 5200, 5195>>, <<5200, 5210, 5320, 5200, 5195>>}

\* The checks that query the database or the ledger; the spread check reads
\* the opportunity only.
RaisingChecks == {"daily_volume", "balance_safety", "pending_orders", "volatility",
                  "frequency"}

\* What check_trade_risk reads: the opportunity, the configured threshold,
\* today's volume, the free balances, the pending count, the recent prices, the
\* trades of the last 30 s, and which query, if any, raises.
RiskInputs ==
    [amount : {TradeAmount, 2 * TradeAmount},
     today_volume : {0, DailyMaxVolume},
     xrp : {80, 110, 111, 220},
     usdt : {0, 200},
     usdc : {0, 200},
     pending_count : {0, MaxPendingOrders},
     history : Histories,
     spread_percentage : {0, 2, 3, SpreadThreshold - 1, SpreadThreshold,
                          SuspiciousSpread, SuspiciousSpread + 1,
                          100 * SpreadThreshold, SpreadPercentage(5210, 5190),
                          100 * SuspiciousSpread, 100 * SuspiciousSpread + 1},
     spread_threshold : {3, SpreadThreshold},
     recent_trades : {0, 1},
     raises : RaisingChecks \cup {"none"}]

\* A reason: the message and the numbers formatted into it.
Reason(text, args) == [text |-> text, args |-> args]

Safe(text) == [safe |-> TRUE, reason |-> Reason(text, <<>>)]
Unsafe(text, args) == [safe |-> FALSE, reason |-> Reason(text, args)]

\* today_volume + trade_amount > daily_limit
check_daily_volume_limit(in) ==
    IF in.raises = "daily_volume" THEN Unsafe("Volume check failed", <<>>)
    ELSE IF in.today_volume + in.amount > DailyMaxVolume
         THEN Unsafe("Daily volume limit exceeded",
                     <<in.today_volume + in.amount, DailyMaxVolume>>)
         ELSE Safe("Volume limit OK")

RECURSIVE PowerOfTwoBelow(_)
\* The largest power of two that is at most n.
PowerOfTwoBelow(n) == IF n < 2 THEN 1 ELSE 2 * PowerOfTwoBelow(n \div 2)

\* required_xrp = trade_amount * (1 + risk_buffer) in binary64.  1 + 0.1 is
\* stored as 11/10 + 2/5 of 2^-52, so the product of a multiple of 10 lies
\* amount * 2/5 of 2^-52 above the whole number amount * 11/10 and is rounded
\* to the nearest double, which is that whole number or the next double above
\* it.  units is the whole number, above tells the two apart.
required_xrp(amount) ==
    LET units == (amount * (100 + RiskBufferPct)) \div 100
    IN [units |-> units, above |-> 4 * amount > 5 * PowerOfTwoBelow(units)]

\* xrp_balance < required_xrp, for a whole xrp_balance
BelowRequired(xrp_balance, required) ==
    \/ xrp_balance < required.units
    \/ xrp_balance = required.units /\ required.above

\* f'{x:.2f}' of a whole number or of the double next to it: hundredths.
Format2f(units) == units * 100

\* usdt_balance < required_stable and usdc_balance < required_stable, with
\* required_stable = trade_amount * 0.52 * (1 + risk_buffer)
BelowRequiredStable(balance, amount) ==
    balance * 10000 < amount * EstimatedPrice * (100 + RiskBufferPct)

check_balance_safety(in) ==
    IF in.raises = "balance_safety" THEN Unsafe("Balance safety check failed", <<>>)
    ELSE IF BelowRequired(in.xrp, required_xrp(in.amount))
         THEN Unsafe("Insufficient XRP balance with safety margin",
                     <<Format2f(in.xrp), Format2f(required_xrp(in.amount).units)>>)
    ELSE IF BelowRequiredStable(in.usdt, in.amount) /\ BelowRequiredStable(in.usdc, in.amount)
         THEN Unsafe("Insufficient stablecoin balance with safety margin", <<>>)
    ELSE Safe("Balance safety OK")

\* pending_count >= max_pending
check_pending_orders_limit(in) ==
    IF in.raises = "pending_orders" THEN Unsafe("Pending orders check failed", <<>>)
    ELSE IF in.pending_count >= MaxPendingOrders
         THEN Unsafe("Too many pending orders", <<in.pending_count, MaxPendingOrders>>)
         ELSE Safe("Pending orders OK")

\* A volatility check that blocks when the price history cannot be read;
\* C34 tells it from check_price_volatility.
VolatilityErrorBlocks(in) ==
    IF in.raises = "volatility" THEN Unsafe("Volatility check failed", <<>>)
    ELSE IF Len(in.history) < MinHistory
         THEN Safe("Insufficient price history for volatility check")
    ELSE IF (SeqMax(in.history) - SeqMin(in.history)) * 100
               > VolatilityLimitPct * SeqMin(in.history)
         THEN Unsafe("High price volatility detected", <<>>)
    ELSE Safe("Price volatility OK")

\* (max_price - min_price) / min_price > 0.02; an error skips the check.
check_price_volatility(in) ==
    IF in.raises = "volatility" THEN Safe("Volatility check skipped due to error")
    ELSE IF Len(in.history) < MinHistory
         THEN Safe("Insufficient price history for volatility check")
    ELSE IF (SeqMax(in.history) - SeqMin(in.history)) * 100
               > VolatilityLimitPct * SeqMin(in.history)
         THEN Unsafe("High price volatility detected", <<>>)
    ELSE Safe("Price volatility OK")

\* current_spread < min_spread, then current_spread > 0.05: the opportunity's
\* spread_percentage against config.spread_threshold and 0.05 as they stand.
check_spread_validity(in) ==
    IF in.spread_percentage < in.spread_threshold
    THEN Unsafe("Spread too small", <<in.spread_percentage, in.spread_threshold>>)
    ELSE IF in.spread_percentage > SuspiciousSpread
         THEN Unsafe("Spread too large, possible data error", <<in.spread_percentage>>)
         ELSE Safe("Spread validity OK")

\* recent_trades > 0; an error skips the check.
check_trading_frequency(in) ==
    IF in.raises = "frequency" THEN Safe("Frequency check skipped due to error")
    ELSE IF in.recent_trades > 0
         THEN Unsafe("Trading too frequently", <<in.recent_trades>>)
         ELSE Safe("Trading frequency OK")

\* The checks in the order check_trade_risk calls them.
RiskChecks == <<"daily_volume", "balance_safety", "pending_orders", "volatility",
                "spread", "frequency">>

RunCheck(name, in) ==
    CASE name = "daily_volume" -> check_daily_volume_limit(in)
      [] name = "balance_safety" -> check_balance_safety(in)
      [] name = "pending_orders" -> check_pending_orders_limit(in)
      [] name = "volatility" -> check_price_volatility(in)
      [] name = "spread" -> check_spread_validity(in)
      [] name = "frequency" -> check_trading_frequency(in)

\* A gate that returns on the last check only.
ReturnsOnLastOnly(check, k) == ~check.safe /\ k = Len(RiskChecks)

\* if not volume_check['safe']: return volume_check, and so for each check
ReturnsCheck(check, k) == ~check.safe

RECURSIVE RiskGate(_, _, _)
\* check_trade_risk from its k-th check on, with the checks evaluated so far.
RiskGate(in, k, evaluated) ==
    IF k > Len(RiskChecks)
    THEN [safe |-> TRUE, reason |-> Reason("All risk checks passed", <<>>),
          evaluated |-> evaluated]
    ELSE LET check == RunCheck(RiskChecks[k], in)
             seen == Append(evaluated, RiskChecks[k])
         IN IF ReturnsCheck(check, k)
            THEN [safe |-> check.safe, reason |-> check.reason, evaluated |-> seen]
            ELSE RiskGate(in, k + 1, seen)

check_trade_risk(in) == RiskGate(in, 1, <<>>)

\* One check called on its own.
SingleCheck(name, in) ==
    LET check == RunCheck(name, in)
    IN [safe |-> check.safe, reason |-> check.reason, evaluated |-> <<name>>]

NoResult == [safe |-> FALSE, reason |-> Reason("none", <<>>), evaluated |-> <<>>]

(* ---------------------------- engine loop ---------------------------- *)
\* ai_recommendation.get('action') in ['EXECUTE_IMMEDIATELY', 'EXECUTE_CAUTIOUSLY']
Recommendations == {"EXECUTE_IMMEDIATELY", "EXECUTE_CAUTIOUSLY", "WAIT"}
ExecuteActions == {"EXECUTE_IMMEDIATELY", "EXECUTE_CAUTIOUSLY"}

HealthCheckEvery == 10      \* iteration_count % 10 == 0

\* _create_fast_opportunity: opportunity_type
OpportunityTypes == {"sell_usdt_buy_usdc", "sell_usdc_buy_usdt"}

\* The frame of the WebSocket callback thread: where it stands, the
\* opportunity it holds and how often that was handed to an execution path.
IdleCallback == [pc |-> "idle", handed |-> 0, opportunity |-> "none"]

\* What stop() found when it was called: the pending Trades and the ledger's
\* locks (kept for comparison only).
NotStopped == [pending |-> <<>>, locked |-> <<>>]

\* The main loop's frame: the iteration counter, the result of the risk gate
\* of the iteration's _execute_opportunity, how often the iteration's opportunity was
\* handed to _execute_opportunity_professional, the callback's frame, the
\* record of stop(), and the engine's counters executed_trades and
\* total_profit.
StartLoop == [pc |-> "cycle", iteration_count |-> 0, risk_check |-> "none",
              handed |-> 0, ws |-> IdleCallback, at_stop |-> NotStopped,
              executed_trades |-> 0, total_profit |-> 0]

\* One iteration of _professional_main_loop up to the call of
\* _execute_opportunity_professional.  On every 10th iteration the health
\* check calls check_system_stability, which RiskController does not define:
\* the loop's handler logs the error and the iteration ends.  The circuit
\* breakers are read nowhere.
MainLoopIteration(found, action) ==
    /\ loop.pc = "cycle"
    /\ ex.pc = "idle"
    /\ sup["engine"].op = "none"
    /\ LET n == (loop.iteration_count + 1) % HealthCheckEvery
       IN loop' = [loop EXCEPT !.pc = IF n # 0 /\ found /\ action \in ExecuteActions
                                       THEN "execute" ELSE "cycle",
                               !.iteration_count = n,
                               !.risk_check = "none",
                               !.handed = 0]
    /\ UNCHANGED <<total, locked, trades, sup, timeout_counts, order_cache,
                   breaker, limits>>
    /\ UNCHANGED ExecutorFrame

\* The branch of _execute_opportunity that handles what
\* execute_arbitrage_trade returned: None takes the else branch; a Trade has
\* no .get, and the engine has no volume_tracker attribute, so both a Trade
\* and a result dict end in the except branch.
ExecuteOpportunityBranch(result) ==
    IF result.kind = "nil" THEN "execution_failure"
    ELSE IF result.kind = "trade" THEN "system_error"
    ELSE "system_error"

\* What check_trade_risk reads at the gate: an opportunity of 0.0385% under a
\* threshold of 0.0003, which passes every check, and the 0.3854% opportunity
\* under the default threshold.
GateInputs ==
    { [amount |-> TradeAmount, today_volume |-> 0, xrp |-> 220, usdt |-> 200,
       usdc |-> 200, pending_count |-> 0, history |-> <<>>,
       spread_percentage |-> SpreadPercentage(5190 + d, 5190),
       spread_threshold |-> IF d = 2 THEN 3 ELSE SpreadThreshold,
       recent_trades |-> 0, raises |-> "none"] : d \in {2, 20} }

\* _execute_opportunity_professional hands the opportunity to
\* _execute_opportunity, which calls check_trade_risk.
CheckRiskGate(in) ==
    /\ loop.pc = "execute"
    /\ loop' = [loop EXCEPT !.pc = "gated",
                            !.risk_check = IF check_trade_risk(in).safe
                                           THEN "safe" ELSE "blocked",
                            !.handed = @ + 1]
    /\ UNCHANGED <<total, locked, trades, sup, timeout_counts, order_cache,
                   breaker, limits>>
    /\ UNCHANGED ExecutorFrame

\* A loop that hands the same opportunity over again.
AfterExecutionRetry == "execute"

\* _execute_opportunity_professional is called once per iteration; the loop
\* goes on to maintenance and sleep.
AfterExecution == "cycle"

\* The answer of the gate once _execute_opportunity has returned: kept for
\* comparison where the run keeps such records (limits.track), dropped
\* otherwise.
AfterGate(risk_check) == IF limits.track THEN risk_check ELSE "none"

\* An _execute_opportunity whose handler reaches the volume tracker and
\* activates the system_error breaker; C36 tells it from ExecuteOpportunity.
ExecuteOpportunityActivates ==
    /\ loop.pc = "gated"
    /\ loop' = [loop EXCEPT !.pc = AfterExecution, !.risk_check = AfterGate(@)]
    /\ breaker' = IF loop.risk_check = "safe"
                  THEN activate_circuit_breaker(breaker, "system_error")
                  ELSE breaker
    /\ UNCHANGED <<total, locked, trades, sup, timeout_counts, order_cache, limits>>
    /\ UNCHANGED ExecutorFrame

\* The rest of _execute_opportunity: a failed gate returns; a passed gate
\* reads risk_check['adjusted_amount'], a key check_trade_risk never sets, and
\* the handler's own call through risk_controller.volume_tracker raises in
\* turn, so the call ends in _execute_opportunity_professional's handler with
\* None.
ExecuteOpportunity ==
    /\ loop.pc = "gated"
    /\ loop' = [loop EXCEPT !.pc = AfterExecution, !.risk_check = AfterGate(@)]
    /\ UNCHANGED <<total, locked, trades, sup, timeout_counts, order_cache,
                   breaker, limits>>
    /\ UNCHANGED ExecutorFrame

\* _on_websocket_price_update: _fast_spread_check finds a spread above 0.3%
\* and above the threshold or none, and a prediction with confidence above
\* 0.7 or not; with both it hands the opportunity it created to
\* _execute_opportunity_ultra_fast.
OnWebsocketPriceUpdate(found, confident) ==
    /\ loop.ws.pc = "idle"
    /\ loop' = [loop EXCEPT !.ws = IF found # "none" /\ confident
                                   THEN [pc |-> "ultra_fast", handed |-> 1,
                                         opportunity |-> found]
                                   ELSE IdleCallback]
    /\ UNCHANGED <<total, locked, trades, sup, timeout_counts, order_cache,
                   breaker, limits>>
    /\ UNCHANGED ExecutorFrame

\* _execute_opportunity_ultra_fast: TradeExecutor defines no
\* enforce_pending_orders_limit, so the first statement raises and the handler
\* logs the error; execute_order_fast is not reached.
ExecuteOpportunityUltraFast ==
    /\ loop.ws.pc = "ultra_fast"
    /\ loop' = [loop EXCEPT !.ws = IdleCallback]
    /\ UNCHANGED <<total, locked, trades, sup, timeout_counts, order_cache,
                   breaker, limits>>
    /\ UNCHANGED ExecutorFrame

(* --------------------------- specifications -------------------------- *)
\* The state after construction: no Trade, nothing locked, some XRP and both
\* stablecoins on hand.
InitState(lim) ==
    /\ \E k \in 1..lim.lots :
          total = [c \in Currencies |->
                     IF c = "XRP" THEN k * TradeAmount ELSE TradeAmount * MaxPrice]
    /\ locked = [c \in Currencies |-> 0]
    /\ trades = <<>>
    /\ orders = <<>>
    /\ ex = IdleFrame
    /\ ret = NoReturn
    /\ pre = NoPre
    /\ sup = [t \in Threads |-> IdleBatch]
    /\ timeout_counts = [o \in OrderTypes |-> 0]
    /\ order_cache = {}
    /\ breaker = [c \in Categories |-> FALSE]
    /\ loop = StartLoop
    /\ calls = 0
    /\ limits = lim

Executor ==
    \/ \E opp \in DetectedOpportunities : ExecuteArbitrageTrade(opp)
    \/ \E reply \in CreateReplies : SellCreateOrder(reply)
    \/ \E reply \in StatusReplies : SellOrderStatus(reply)
    \/ BuyLock
    \/ \E reply \in CreateReplies : BuyCreateOrder(reply)
    \/ \E reply \in StatusReplies : BuyOrderStatus(reply)

Supervisor ==
    \/ \E t \in {"monitor", "engine"} : CheckTimeoutOrders(t)
    \/ \E t \in {"monitor", "engine"}, status \in StatusReplies,
          cancel \in CancelReplies : HandleTimeoutOrder(t, status, cancel)
    \/ \E status \in StatusReplies : UpdatePendingOrders(status)

CancelOperations ==
    \/ \E op \in {"cancel_pending_orders", "check_order_timeouts",
                  "force_cancel_all_pending"} : StartCancelOperation(op)
    \/ \E cancel \in CancelReplies : CancelPendingOrders(cancel)
    \/ \E status \in StatusReplies : CheckOrderTimeouts(status)
    \/ \E cancel \in CancelReplies : ForceCancelAllPending(cancel)

\* The executor beside the supervisor: the monitor thread and the engine's
\* maintenance call.
Init == InitState([execs |-> MaxCalls, counts |-> MaxCount, lots |-> MaxLots,
                   track |-> FALSE])

Next == Executor \/ Supervisor \/ Tick

Spec == Init /\ [][Next]_vars

\* The monitor thread's steps; _monitoring_loop runs them every 2 seconds for
\* as long as monitoring_active holds.
MonitoringLoop ==
    \/ CheckTimeoutOrders("monitor")
    \/ \E status \in StatusReplies, cancel \in CancelReplies :
          HandleTimeoutOrder("monitor", status, cancel)
    \/ \E status \in StatusReplies : UpdatePendingOrders(status)

\* The same with a monitor thread that keeps running and time that passes.
FairSpec == Spec /\ WF_vars(MonitoringLoop) /\ WF_vars(Tick)

\* The executor beside the cancel operations.
CancelSpec ==
    /\ Init
    /\ [][Executor \/ CancelOperations \/ Tick]_vars

\* The executor alone: calls of execute_arbitrage_trade one after the other,
\* with the ledger at the entry of each call and leg kept for comparison.
ExecSpec ==
    /\ InitState([execs |-> MaxExecs, counts |-> MaxCount, lots |-> MaxLots,
                  track |-> TRUE])
    /\ [][Executor]_vars

\* The same with MaxCalls calls.
CallSpec ==
    /\ InitState([execs |-> MaxCalls, counts |-> MaxCount, lots |-> MaxLots,
                  track |-> TRUE])
    /\ [][Executor]_vars

EngineLoop ==
    \/ \E found \in BOOLEAN, action \in Recommendations : MainLoopIteration(found, action)
    \/ \E in \in GateInputs : CheckRiskGate(in)
    \/ ExecuteOpportunity

\* The engine's main loop beside the monitor thread, with timeout_counts kept
\* up to the first value that requests the order_timeout breaker.
EngineSpec ==
    /\ InitState([execs |-> MaxCalls, counts |-> BreakerThreshold + 1,
                  lots |-> 1, track |-> FALSE])
    /\ [][Executor \/ MonitoringLoop \/ Tick \/ EngineLoop]_vars

\* One call of the executor beside the monitor thread alone, with
\* timeout_counts kept up to the first value that requests the order_timeout
\* breaker.
MonitorSpec ==
    /\ InitState([execs |-> 1, counts |-> BreakerThreshold + 1,
                  lots |-> 1, track |-> FALSE])
    /\ [][Executor \/ MonitoringLoop \/ Tick]_vars

\* stop() of a running engine up to force_cancel_all_pending: running is
\* cleared and the main thread joined, so the loop stands between two
\* iterations and no call of the executor is under way; stop_monitoring clears
\* monitoring_active and waits 5 seconds at most for the monitor thread, which
\* may still be inside a pass; then force_cancel_all_pending reads the pending
\* Trades.
Stop ==
    /\ loop.pc = "cycle"
    /\ ex.pc = "idle"
    /\ sup["engine"].op = "none"
    /\ sup["api"].op = "none"
    /\ LET snap == PendingIds(trades)
       IN /\ loop' = [loop EXCEPT !.pc = IF snap = <<>> THEN "stopped" ELSE "stopping",
                                  !.at_stop = [pending |-> snap, locked |-> locked]]
          /\ sup' = [sup EXCEPT !["api"] =
                        IF snap = <<>> THEN IdleBatch
                        ELSE [op |-> "force_cancel_all_pending", snap |-> snap,
                              dirty |-> <<>>]]
    /\ UNCHANGED <<total, locked, trades, timeout_counts, order_cache, breaker, limits>>
    /\ UNCHANGED ExecutorFrame

\* stop() returns once force_cancel_all_pending has.
StopReturn ==
    /\ loop.pc = "stopping"
    /\ sup["api"].op = "none"
    /\ loop' = [loop EXCEPT !.pc = "stopped"]
    /\ UNCHANGED <<total, locked, trades, sup, timeout_counts, order_cache,
                   breaker, limits>>
    /\ UNCHANGED ExecutorFrame

StopEngine ==
    \/ Stop
    \/ \E cancel \in CancelReplies : ForceCancelAllPending(cancel)
    \/ StopReturn

\* A running engine that is stopped: the executor, the monitor thread, time,
\* and stop().
StopSpec ==
    /\ Init
    /\ [][Executor \/ MonitoringLoop \/ Tick \/ StopEngine]_vars

\* The callback thread of the WebSocket manager.
WebSocketCallback ==
    \/ \E found \in OpportunityTypes \cup {"none"}, confident \in BOOLEAN :
          OnWebsocketPriceUpdate(found, confident)
    \/ ExecuteOpportunityUltraFast

\* The main loop beside the callback thread, with no other caller of the
\* executor.
DispatchSpec ==
    /\ InitState([execs |-> 0, counts |-> 0, lots |-> 1, track |-> TRUE])
    /\ [][EngineLoop \/ WebSocketCallback]_vars

\* The executor alone on a ledger that may hold less XRP than one trade
\* amount: 0 to 2 * MaxLots halves of it.
InitShort ==
    /\ \E k \in 0..(2 * MaxLots) :
          total = [c \in Currencies |->
                     IF c = "XRP" THEN k * (TradeAmount \div 2)
                     ELSE TradeAmount * MaxPrice]
    /\ locked = [c \in Currencies |-> 0]
    /\ trades = <<>>
    /\ orders = <<>>
    /\ ex = IdleFrame
    /\ ret = NoReturn
    /\ pre = NoPre
    /\ sup = [t \in Threads |-> IdleBatch]
    /\ timeout_counts = [o \in OrderTypes |-> 0]
    /\ order_cache = {}
    /\ breaker = [c \in Categories |-> FALSE]
    /\ loop = StartLoop
    /\ calls = 0
    /\ limits = [execs |-> MaxCalls, counts |-> MaxCount, lots |-> MaxLots,
                 track |-> TRUE]

ShortSpec == InitShort /\ [][Executor]_vars

(* -------------------------- gated executions ------------------------- *)
RECURSIVE AmountOf(_, _)
\* sum(trade.amount for trade in today_trades) over the Trades ids
AmountOf(T, ids) ==
    IF ids = <<>> THEN 0 ELSE T[Head(ids)].amount + AmountOf(T, Tail(ids))

\* The volume of today's Trades in status completed or pending: those made
\* before the run (limits.earlier) and those of the run.
TodayVolume(T) ==
    limits.earlier
      + AmountOf(T, SelectSeq(Ids(T), LAMBDA i : T[i].status \in {"completed", "pending"}))

\* What check_trade_risk reads when the gate is asked for opp: the volume of
\* the day, the free balances and the pending Trades as they are, no price
\* history, a spread that passes the spread check, and no Trade created in
\* the last 30 seconds.
GateState(opp) ==
    [amount |-> opp.amount, today_volume |-> TodayVolume(trades),
     xrp |-> Available(Ledger, "XRP"), usdt |-> Available(Ledger, "USDT"),
     usdc |-> Available(Ledger, "USDC"),
     pending_count |-> Len(PendingIds(trades)), history |-> <<>>,
     spread_percentage |-> SpreadPercentage(5192, 5190), spread_threshold |-> 3,
     recent_trades |-> 0, raises |-> "none"]

\* _execute_opportunity as written: execute_arbitrage_trade is called when
\* check_trade_risk answers safe.
RiskGatedExecution(opp) ==
    /\ ret = NoReturn
    /\ check_trade_risk(GateState(opp)).safe
    /\ ExecuteArbitrageTrade(opp)

\* What the main loop receives from _execute_opportunity_professional for a
\* result of execute_arbitrage_trade: _execute_opportunity returns no value
\* on any path (its only return statement is the bare one of a blocked
\* gate), and _execute_opportunity_professional answers an exception in it
\* with None.
ExecuteOpportunityProfessional(result) == NoReturn

\* The rest of the cycle once execute_arbitrage_trade has returned:
\* `if execution_result:` guards executed_trades += 1 and
\* total_profit += execution_result.get('profit_loss', 0).
CountExecution ==
    /\ ex.pc = "idle"
    /\ ret # NoReturn
    /\ LET execution_result == ExecuteOpportunityProfessional(ret)
       IN loop' = IF execution_result # NoReturn
                  THEN [loop EXCEPT !.executed_trades = @ + 1,
                                    !.total_profit = @ + execution_result.profit_loss]
                  ELSE loop
    /\ ret' = NoReturn
    /\ UNCHANGED <<total, locked, trades, orders, ex, pre, calls, sup,
                   timeout_counts, order_cache, breaker, limits>>

\* Cycles of the engine with executions behind the risk gate, one after the
\* other, on a day that has seen some volume already.
GatedSpec ==
    /\ \E earlier \in {0, DailyMaxVolume - TradeAmount} :
          InitState([execs |-> MaxExecs, counts |-> MaxCount, lots |-> MaxLots + 1,
                     track |-> FALSE, earlier |-> earlier])
    /\ [][\/ \E opp \in DetectedOpportunities : RiskGatedExecution(opp)
          \/ \E reply \in CreateReplies : SellCreateOrder(reply)
          \/ \E reply \in StatusReplies : SellOrderStatus(reply)
          \/ BuyLock
          \/ \E reply \in CreateReplies : BuyCreateOrder(reply)
          \/ \E reply \in StatusReplies : BuyOrderStatus(reply)
          \/ CountExecution]_vars

(* ------------------------- persistence errors ------------------------ *)
\* _execute_sell_order when db.session.commit() raises: the settlement of a
\* closed order has run, the handler rolls the Trade back and unlocks.
SellCommitRaises(reply) ==
    /\ ex.pc = "sell_poll"
    /\ LET r == IF reply = "closed"
                THEN RunOps(Ledger, SellSettlement(ex.trade))
                ELSE [ok |-> TRUE, l |-> Ledger]
       IN SetLedger(SellHandler(r.l, ex.opp.amount))
    /\ ex' = IdleFrame
    /\ ret' = NilReturn
    /\ UNCHANGED <<trades, orders, pre, calls>>
    /\ UNCHANGED SupervisorFrame

\* _execute_buy_order when db.session.commit() raises.
BuyCommitRaises(reply) ==
    /\ ex.pc = "buy_poll"
    /\ LET req == RequiredValue(ex.opp)
           r == IF reply = "closed"
                THEN RunOps(Ledger, BuySettlement(ex.trade, req))
                ELSE [ok |-> TRUE, l |-> Ledger]
       IN SetLedger(BuyHandler(r.l, Stable(ex.opp.buy_pair), req))
    /\ ex' = IdleFrame
    /\ ret' = SellTradeReturn(ex.sell)
    /\ UNCHANGED <<trades, orders, pre, calls>>
    /\ UNCHANGED SupervisorFrame

\* One call of the executor in which db.session.commit() may raise after any
\* reply of get_order_status that reaches it.
CommitSpec ==
    /\ InitShort
    /\ [][\/ Executor
           \/ \E reply \in {"closed", "partial", "open"} : SellCommitRaises(reply)
           \/ \E answer \in {"closed", "partial", "open"} : BuyCommitRaises(answer)]_vars

(* ------------------------- concurrent callers ------------------------ *)
\* Two callers of _execute_sell_order on one ledger, each ledger call a step
\* of its own and atomic as the ledger's contract has it.
Callers == {"first", "second"}

\* if not check_sufficient_balance('XRP', amount): raise; the handler unlocks.
SellCheckSufficient(c) ==
    /\ loop.pc = "callers"
    /\ loop.at[c] = "start"
    /\ IF check_sufficient_balance(Ledger, "XRP", TradeAmount)
       THEN /\ loop' = [loop EXCEPT !.at[c] = "checked"]
            /\ UNCHANGED <<total, locked>>
       ELSE /\ loop' = [loop EXCEPT !.at[c] = "failed"]
            /\ SetLedger(SellHandler(Ledger, TradeAmount))
    /\ UNCHANGED <<trades, sup, timeout_counts, order_cache, breaker, limits>>
    /\ UNCHANGED ExecutorFrame

\* lock_balance('XRP', amount); InsufficientFunds ends in the handler.
SellLockBalance(c) ==
    /\ loop.pc = "callers"
    /\ loop.at[c] = "checked"
    /\ LET r == lock_balance(Ledger, "XRP", TradeAmount)
       IN IF r.ok
          THEN /\ loop' = [loop EXCEPT !.at[c] = "holding"]
               /\ SetLedger(r.l)
          ELSE /\ loop' = [loop EXCEPT !.at[c] = "failed"]
               /\ SetLedger(SellHandler(Ledger, TradeAmount))
    /\ UNCHANGED <<trades, sup, timeout_counts, order_cache, breaker, limits>>
    /\ UNCHANGED ExecutorFrame

\* The order of the caller is found closed at the price of the reply: the
\* settlement of the sell leg; a ledger call that fails ends in the handler.
SellSettle(c, price) ==
    /\ loop.pc = "callers"
    /\ loop.at[c] = "holding"
    /\ LET trade == NewTrade("sell", "XRP/USDT", TradeAmount, price, TradeAmount)
           r == RunOps(Ledger, SellSettlement(trade))
       IN IF r.ok
          THEN /\ loop' = [loop EXCEPT !.at[c] = "completed"]
               /\ SetLedger(r.l)
          ELSE /\ loop' = [loop EXCEPT !.at[c] = "failed"]
               /\ SetLedger(SellHandler(r.l, TradeAmount))
    /\ UNCHANGED <<trades, sup, timeout_counts, order_cache, breaker, limits>>
    /\ UNCHANGED ExecutorFrame

InitCallers ==
    /\ \E k \in 0..(2 * MaxLots), stable \in {0, TradeAmount * MaxPrice} :
          total = [c \in Currencies |->
                     IF c = "XRP" THEN k * (TradeAmount \div 2) ELSE stable]
    /\ locked = [c \in Currencies |-> 0]
    /\ trades = <<>>
    /\ orders = <<>>
    /\ ex = IdleFrame
    /\ ret = NoReturn
    /\ pre = NoPre
    /\ sup = [t \in Threads |-> IdleBatch]
    /\ timeout_counts = [o \in OrderTypes |-> 0]
    /\ order_cache = {}
    /\ breaker = [c \in Categories |-> FALSE]
    /\ loop = [pc |-> "callers", at |-> [c \in Callers |-> "start"]]
    /\ calls = 0
    /\ limits = [execs |-> 0, counts |-> 0, lots |-> MaxLots, track |-> FALSE]

CallersSpec ==
    /\ InitCallers
    /\ [][\E c \in Callers :
              \/ SellCheckSufficient(c)
              \/ SellLockBalance(c)
              \/ \E price \in Prices : SellSettle(c, price)]_vars

(* ------------------------ risk controller calls ---------------------- *)
\* The state after construction with the engine's frame as given; before a
\* call of the risk controller or of a detector the frame holds the input of
\* the call.
InitFrame(frame) ==
    /\ total = [c \in Currencies |-> IF c = "XRP" THEN TradeAmount
                                      ELSE TradeAmount * MaxPrice]
    /\ locked = [c \in Currencies |-> 0]
    /\ trades = <<>>
    /\ orders = <<>>
    /\ ex = IdleFrame
    /\ ret = NoReturn
    /\ pre = NoPre
    /\ sup = [t \in Threads |-> IdleBatch]
    /\ timeout_counts = [o \in OrderTypes |-> 0]
    /\ order_cache = {}
    /\ breaker = [c \in Categories |-> FALSE]
    /\ loop = frame
    /\ calls = 0
    /\ limits = [execs |-> 0, counts |-> 0, lots |-> 1, track |-> FALSE]

Returns(fn, result) ==
    /\ loop.pc = "call"
    /\ loop' = [loop EXCEPT !.pc = "returned", !.fn = fn, !.result = result]
    /\ UNCHANGED <<total, locked, trades, sup, timeout_counts, order_cache,
                   breaker, limits>>
    /\ UNCHANGED ExecutorFrame

CheckTradeRisk == Returns("check_trade_risk", check_trade_risk(loop.input))

CheckBalanceSafety ==
    Returns("_check_balance_safety", SingleCheck("balance_safety", loop.input))

CheckSpreadValidity ==
    Returns("_check_spread_validity", SingleCheck("spread", loop.input))

RiskSpec ==
    /\ \E in \in RiskInputs :
          InitFrame([pc |-> "call", fn |-> "none", input |-> in, result |-> NoResult])
    /\ [][CheckTradeRisk \/ CheckBalanceSafety \/ CheckSpreadValidity]_vars

(* --------------------------- system health --------------------------- *)
\* What check_system_health reads: whether SELECT 1 succeeds, the balances of
\* get_balances (or its exception) and the count of Trades pending for more
\* than five minutes.
HealthInputs ==
    [db_ok : BOOLEAN,
     balances : { b \in [Currencies -> [total : {0, TradeAmount},
                                        locked : {0, TradeAmount}]] :
                    b["USDC"] = b["USDT"] },
     old_pending : 0..MaxCount,
     raises : BOOLEAN]

\* healthy is cleared by a failing SELECT 1, by a currency whose locked exceeds
\* its total, and by any exception of the remaining reads.
Healthy(in) ==
    /\ in.db_ok
    /\ ~in.raises
    /\ \A c \in Currencies : in.balances[c].locked <= in.balances[c].total

check_system_health(in) ==
    IF in.raises
    THEN [healthy |-> FALSE, warnings |-> {}, errors |-> {"health_check_failed"}]
    ELSE [healthy |-> Healthy(in),
          warnings |->
              { <<"negative", c>> : c \in { c \in Currencies : in.balances[c].total < 0 } }
              \cup (IF in.old_pending > 0 THEN { <<"old_pending", in.old_pending>> } ELSE {}),
          errors |->
              (IF in.db_ok THEN {} ELSE { <<"database">> })
              \cup { <<"locked_exceeds_total", c>> :
                       c \in { c \in Currencies :
                                 in.balances[c].locked > in.balances[c].total } }]

CheckSystemHealth == Returns("check_system_health", check_system_health(loop.input))

HealthSpec ==
    /\ \E in \in HealthInputs :
          InitFrame([pc |-> "call", fn |-> "none", input |-> in, result |-> NoResult])
    /\ [][CheckSystemHealth]_vars

(* ----------------------------- detection ----------------------------- *)
\* Prices are in units of 0.0001; spread percentages and thresholds are in
\* ten-thousandths as above; the confidence of a prediction is in tenths.
MinimumProfitableSpread == 800   \* minimum_profitable_spread = 0.08
MinVolume24h == 1000             \* min_volume_24h = 1000.0
FastTradeLimit == 200            \* _create_fast_opportunity: min(config.trade_amount, 200.0)
MinEnhancedAmount == 50          \* _create_enhanced_opportunity: max(50.0, ...)
MaxEnhancedAmount == 500         \* _create_enhanced_opportunity: min(..., 500.0)
FastSpreadFloor == 3000          \* _fast_spread_check: spread_pct > 0.3
FullVolume == 10000              \* _create_enhanced_opportunity: volume / 10000

DetectPrices == {5190, 5193, 5210}

PriceMaps == [usdt : DetectPrices, usdc : DetectPrices]

\* What a detection reads: the pairs the WebSocket manager holds and their
\* prices and volume, the polled prices and volume, the configured threshold,
\* the confidence of the prediction, the free XRP and today's volume (which
\* decide the maximum safe trade amount), and whether a call on the push-based
\* path raises.
DetectInputs ==
    [ws_pairs : SUBSET Pairs,
     ws : PriceMaps,
     ws_volume : {500, 5000, 20000},
     poll : PriceMaps,
     poll_volume : {500, 2000},
     spread_threshold : {5, SpreadThreshold},
     confidence : {0, 10},
     xrp : {0, 200},
     today_volume : {0, DailyMaxVolume},
     push_raises : BOOLEAN]

Minimum(a, b) == IF a < b THEN a ELSE b
Maximum(a, b) == IF a > b THEN a ELSE b

NoOpportunity ==
    [found |-> FALSE, source |-> "none", usdt_price |-> 0, usdc_price |-> 0,
     spread_percentage |-> 0, sell_pair |-> "none", buy_pair |-> "none",
     sell_price |-> 0, buy_price |-> 0, amount |-> 0]

\* The direction both detectors choose: usdt_price > usdc_price sells
\* XRP/USDT, anything else sells XRP/USDC.
Directed(source, usdt, usdc, pct, amount) ==
    [found |-> TRUE, source |-> source, usdt_price |-> usdt, usdc_price |-> usdc,
     spread_percentage |-> pct,
     sell_pair |-> IF usdt > usdc THEN "XRP/USDT" ELSE "XRP/USDC",
     buy_pair |-> IF usdt > usdc THEN "XRP/USDC" ELSE "XRP/USDT",
     sell_price |-> IF usdt > usdc THEN usdt ELSE usdc,
     buy_price |-> IF usdt > usdc THEN usdc ELSE usdt,
     amount |-> amount]

\* max(config.spread_threshold * 100, minimum_profitable_spread)
PollThreshold(spread_threshold) == Maximum(100 * spread_threshold, MinimumProfitableSpread)

\* calculate_max_safe_trade_amount:
\* max(0, min(xrp_balance * (1 - risk_buffer), remaining_daily_volume,
\*            config.trade_amount)), in whole XRP.
calculate_max_safe_trade_amount(in) ==
    LET max_xrp == (in.xrp * (100 - RiskBufferPct)) \div 100
        remaining_daily_volume == DailyMaxVolume - in.today_volume
    IN Maximum(0, Minimum(max_xrp, Minimum(remaining_daily_volume, TradeAmount)))

\* _detect_arbitrage_opportunity on the polled prices; the trade amount is
\* kept in whole XRP.
detect_arbitrage_opportunity(in) ==
    LET usdt == in.poll.usdt
        usdc == in.poll.usdc
        higher == Maximum(usdt, usdc)
        lower == Minimum(usdt, usdc)
        pct == SpreadPercentage(higher, lower)
        adjusted == Minimum(2 * TradeAmount, (TradeAmount * pct) \div 3000)
        amount == Minimum(adjusted, calculate_max_safe_trade_amount(in))
        \* (gross_profit - estimated_fees) * 10^8 against 0.10 * 10^8
        net == amount * (higher - lower) * 10000 - amount * (higher + lower) * 6
    IN IF pct < PollThreshold(in.spread_threshold) THEN NoOpportunity
       ELSE IF in.poll_volume < MinVolume24h THEN NoOpportunity
       ELSE IF amount <= 0 THEN NoOpportunity
       ELSE IF net < 10000000 THEN NoOpportunity
       ELSE Directed("poll", usdt, usdc, pct, amount)

\* calculate_spread_fast: round((spread / min_price) * 100, 4)
calculate_spread_fast(usdt, usdc) ==
    LET higher == Maximum(usdt, usdc)
        lower == Minimum(usdt, usdc)
    IN IF usdt <= 0 \/ usdc <= 0 THEN [valid |-> FALSE, spread_pct |-> 0]
       ELSE [valid |-> TRUE,
             spread_pct |-> (2 * (higher - lower) * 1000000 + lower) \div (2 * lower)]

\* _create_fast_opportunity
create_fast_opportunity(usdt, usdc, spread_data) ==
    Directed("ws", usdt, usdc, spread_data.spread_pct,
             Minimum(TradeAmount, FastTradeLimit))

\* _create_enhanced_opportunity: the amount becomes
\* max(50, min(trade_amount * confidence * min(1, volume / 10000), 500)).
create_enhanced_opportunity(in, spread_data) ==
    LET base == create_fast_opportunity(in.ws.usdt, in.ws.usdc, spread_data)
        adjusted == (TradeAmount * in.confidence * Minimum(FullVolume, in.ws_volume))
                        \div (10 * FullVolume)
    IN [base EXCEPT !.amount = Maximum(MinEnhancedAmount,
                                       Minimum(adjusted, MaxEnhancedAmount))]

\* A detector that falls back only when the push-based path raises.
FallsBackOnRaiseOnly(in) == in.push_raises

\* not latest_prices or a pair missing from latest_prices, or an exception on
\* the way: the poll-based detector answers.
FallsBack(in) == in.push_raises \/ in.ws_pairs # Pairs

\* _detect_arbitrage_opportunity_enhanced
detect_arbitrage_opportunity_enhanced(in) ==
    IF FallsBack(in) THEN detect_arbitrage_opportunity(in)
    ELSE LET spread_data == calculate_spread_fast(in.ws.usdt, in.ws.usdc)
         IN IF ~spread_data.valid THEN NoOpportunity
            \* spread_percentage < spread_threshold * 100 * (2 - confidence)
            ELSE IF spread_data.spread_pct * 10
                       < 100 * in.spread_threshold * (20 - in.confidence)
                 THEN NoOpportunity
            ELSE create_enhanced_opportunity(in, spread_data)

\* The opportunity _fast_spread_check creates on a price update.
fast_spread_check(in) ==
    IF in.ws_pairs # Pairs THEN NoOpportunity
    ELSE LET spread_data == calculate_spread_fast(in.ws.usdt, in.ws.usdc)
         IN IF spread_data.valid /\ spread_data.spread_pct > FastSpreadFloor
               /\ spread_data.spread_pct > 100 * in.spread_threshold
            THEN create_fast_opportunity(in.ws.usdt, in.ws.usdc, spread_data)
            ELSE NoOpportunity

DetectArbitrageOpportunity ==
    Returns("_detect_arbitrage_opportunity", detect_arbitrage_opportunity(loop.input))

DetectArbitrageOpportunityEnhanced ==
    Returns("_detect_arbitrage_opportunity_enhanced",
            detect_arbitrage_opportunity_enhanced(loop.input))

FastSpreadCheck == Returns("_fast_spread_check", fast_spread_check(loop.input))

DetectSpec ==
    /\ \E in \in DetectInputs :
          InitFrame([pc |-> "call", fn |-> "none", input |-> in,
                     result |-> NoOpportunity])
    /\ [][\/ DetectArbitrageOpportunity
           \/ DetectArbitrageOpportunityEnhanced
           \/ FastSpreadCheck]_vars

(* ----------------------------- lifecycle ----------------------------- *)
MaxStarts == 3

\* start(): returns with a warning when running is set; otherwise sets
\* running and starts a thread on _professional_main_loop.
StartCall ==
    /\ loop.starts < MaxStarts
    /\ loop' = IF loop.running
               THEN [loop EXCEPT !.starts = @ + 1]
               ELSE [loop EXCEPT !.running = TRUE, !.thread = "alive",
                                 !.earlier = IF loop.thread = "alive" THEN @ + 1 ELSE @,
                                 !.starts = @ + 1, !.iteration_count = 0]
    /\ UNCHANGED <<total, locked, trades, sup, timeout_counts, order_cache,
                   breaker, limits>>
    /\ UNCHANGED ExecutorFrame

\* One test of `while self.running` and the pass that follows it, in the
\* thread of self.thread or in one of an earlier start(): the loop ends when
\* running is cleared and, by break, when get_config() answers nothing;
\* the break leaves running as it is.
ProfessionalMainLoop(latest, config) ==
    /\ IF latest THEN loop.thread = "alive" ELSE loop.earlier > 0
    /\ loop' = IF ~loop.running \/ ~config
               THEN IF latest THEN [loop EXCEPT !.thread = "dead"]
                    ELSE [loop EXCEPT !.earlier = @ - 1]
               ELSE IF latest
                    THEN [loop EXCEPT !.iteration_count = (@ + 1) % HealthCheckEvery]
                    ELSE loop
    /\ UNCHANGED <<total, locked, trades, sup, timeout_counts, order_cache,
                   breaker, limits>>
    /\ UNCHANGED ExecutorFrame

\* stop(): returns at once when running is clear; otherwise clears running
\* and waits in self.thread.join() for the thread to end.
StopCall ==
    /\ \/ /\ ~loop.joining
          /\ loop.running
          /\ loop' = [loop EXCEPT !.running = FALSE, !.joining = TRUE]
       \/ /\ loop.joining
          /\ loop.thread # "alive"
          /\ loop' = [loop EXCEPT !.joining = FALSE]
    /\ UNCHANGED <<total, locked, trades, sup, timeout_counts, order_cache,
                   breaker, limits>>
    /\ UNCHANGED ExecutorFrame

\* start() and stop() called on an engine whose loop may find no
\* configuration.  After construction running is False and no thread
\* exists; thread is the state of the thread self.thread refers to, earlier
\* the number of loop threads of earlier start() calls that are still alive,
\* joining whether a stop() waits in self.thread.join(), starts the number
\* of start() calls, iteration_count that of the loop of self.thread.
LifecycleSpec ==
    /\ InitFrame([pc |-> "lifecycle", running |-> FALSE, thread |-> "none",
                  earlier |-> 0, joining |-> FALSE, starts |-> 0,
                  iteration_count |-> 0])
    /\ [][\/ StartCall
          \/ \E latest, config \in BOOLEAN : ProfessionalMainLoop(latest, config)
          \/ StopCall]_vars

(* --------------------------- price stream ---------------------------- *)
MaxReconnectAttempts == 10       \* self.max_reconnect_attempts = 10
MaxMessages == 3

\* A handler whose failure branches start the count again.
AfterFailureReset(reconnect_count) == 0

\* reconnect_count += 1 in both except branches
AfterFailure(reconnect_count) == reconnect_count + 1

\* price_stream_handler of one symbol.  At "test" the handler evaluates
\* `while self.is_running and reconnect_count < self.max_reconnect_attempts`
\* and, inside, websockets.connect and the subscription either succeed
\* (reconnect_count = 0, the connection stored) or raise; at "listening" the
\* next message arrives, the stream ends, or the connection raises.  A
\* message received after stop() breaks out of the listening loop.  failed
\* counts the failures since the last successful connection, messages the
\* messages handled.
PriceStreamHandler(event) ==
    /\ loop.pc = "handler"
    /\ LET failure == [loop EXCEPT !.at = "test",
                                   !.reconnect_count = AfterFailure(@),
                                   !.failed = Minimum(@ + 1, MaxReconnectAttempts + 1)]
       IN \/ /\ loop.at = "test"
             /\ ~(loop.is_running /\ loop.reconnect_count < MaxReconnectAttempts)
             /\ event = "end"
             /\ loop' = [loop EXCEPT !.at = "ended", !.connected = FALSE]
          \/ /\ loop.at = "test"
             /\ loop.is_running /\ loop.reconnect_count < MaxReconnectAttempts
             /\ \/ /\ event = "connected"
                   /\ loop' = [loop EXCEPT !.at = "listening", !.connected = TRUE,
                                           !.reconnect_count = 0, !.failed = 0]
                \/ /\ event \in {"closed", "error"}
                   /\ loop' = failure
          \/ /\ loop.at = "listening"
             /\ \/ /\ event = "message"
                   /\ loop.is_running
                   /\ loop.messages < MaxMessages
                   /\ loop' = [loop EXCEPT !.messages = @ + 1]
                \/ /\ event = "message"
                   /\ ~loop.is_running
                   /\ loop' = [loop EXCEPT !.at = "test"]
                \/ /\ event = "end"
                   /\ loop' = [loop EXCEPT !.at = "test"]
                \/ /\ event \in {"closed", "error"}
                   /\ loop' = failure
    /\ UNCHANGED <<total, locked, trades, sup, timeout_counts, order_cache,
                   breaker, limits>>
    /\ UNCHANGED ExecutorFrame

\* WebSocketManager.stop(): is_running is cleared.
WebSocketStop ==
    /\ loop.pc = "handler"
    /\ loop.is_running
    /\ loop' = [loop EXCEPT !.is_running = FALSE]
    /\ UNCHANGED <<total, locked, trades, sup, timeout_counts, order_cache,
                   breaker, limits>>
    /\ UNCHANGED ExecutorFrame

\* The handler of one price stream of a started manager, and stop().
HandlerSpec ==
    /\ InitFrame([pc |-> "handler", at |-> "test", is_running |-> TRUE,
                  reconnect_count |-> 0, failed |-> 0, connected |-> FALSE,
                  messages |-> 0])
    /\ [][\/ \E event \in {"connected", "message", "end", "closed", "error"} :
                PriceStreamHandler(event)
          \/ WebSocketStop]_vars

(* ------------------------------ claims ------------------------------- *)
\* C1: for every currency, in every reachable state, 0 <= locked <= total.
C1_LockedWithinTotal ==
    \A c \in Currencies : 0 <= locked[c] /\ locked[c] <= total[c]

\* C2: within one execute_arbitrage_trade call the buy order is submitted to
\* the exchange only after the sell Trade of the call has reached completed.
C2_BuyAfterSellCompleted ==
    [][(ex.pc = "buy_submit" /\ Len(orders') = Len(orders) + 1)
          => trades[ex.sell].status = "completed"]_vars

\* What execute_arbitrage_trade returns for both legs done.
SomeFullResult == [kind |-> "dict", sell |-> 1, buy |-> 2, profit_loss |-> 0]

\* C3: when the sell leg completed and the buy leg failed, the call returns
\* the completed sell Trade, no buy Trade persists, and _execute_opportunity
\* handles the result apart from a full success and from a total failure.
C3_PartialFailureSignalled ==
    (ex.pc = "idle" /\ ret.kind = "trade" /\ trades[ret.sell].status = "completed")
        => /\ trades[ret.sell].trade_type = "sell"
           /\ Len(trades) = ret.sell
           /\ ExecuteOpportunityBranch(ret) # ExecuteOpportunityBranch(SomeFullResult)
           /\ ExecuteOpportunityBranch(ret) # ExecuteOpportunityBranch(NilReturn)

TradeIds == 1..(2 * MaxCalls)

\* C4: with a monitor thread that keeps running, every pending Trade
\* eventually reaches a status other than pending.
C4_PendingResolves ==
    \A i \in TradeIds :
        (i <= Len(trades) /\ trades[i].status = "pending")
            ~> (i <= Len(trades) /\ trades[i].status # "pending")

\* The statuses a Trade leaves pending for without being completed.
ReleasedStatuses ==
    {"timeout_cancelled", "timeout_failed", "timeout_error", "timeout",
     "cancelled", "force_cancelled", "cancel_failed", "cancel_error"}

\* A step writes status s to the pending Trade i: into the thread's session,
\* or (the last Trade of a batch, a per-Trade commit) into the table.
WritesStatus(i, s) ==
    /\ trades[i].status = "pending"
    /\ \A t \in Threads : i \notin DOMAIN sup[t].dirty
    /\ \/ trades'[i].status = s
       \/ \E t \in Threads : i \in DOMAIN sup'[t].dirty /\ sup'[t].dirty[i] = s

\* C5: the step that moves a Trade out of pending into a status other than
\* completed releases the balance reserved for that Trade.
C5_ReleasedWhenAbandoned ==
    [][\A i \in 1..Len(trades) : \A s \in ReleasedStatuses :
          WritesStatus(i, s) =>
              locked'[UnlockCurrency(trades[i])]
                  = locked[UnlockCurrency(trades[i])] - trades[i].reserved]_vars

\* C6: a Trade that is no longer pending keeps its status.
C6_TerminalStatusKept ==
    [][\A i \in 1..Len(trades) :
          trades[i].status # "pending" => trades'[i].status = trades[i].status]_vars

\* C7: a call that cannot lock the sell-side asset returns with the ledger,
\* the Trade table and the exchange orders as it found them.
C7_LockFailureNoSideEffect ==
    [][(ex.pc = "idle" /\ calls' = calls + 1 /\ ex'.pc = "idle")
          => /\ ret'.kind = "nil"
             /\ UNCHANGED <<total, locked, trades, orders>>]_vars

\* C8: when submitting the sell order raises, the call returns nil with the
\* XRP locked amount of its entry, no Trade of the attempt, no order and no
\* buy leg.
C8_SellSubmitFailureUnlocks ==
    [][(ex.pc = "sell_submit" /\ ex'.pc = "idle")
          => /\ ret'.kind = "nil"
             /\ locked' = pre.call.locked
             /\ total' = pre.call.total
             /\ trades' = trades /\ Len(trades') = pre.ntrades
             /\ orders' = orders /\ Len(orders') = pre.norders]_vars

\* C8 witness: a call has locked XRP for the sell leg and returned nil after
\* the submission raised (no order of the call exists, XRP was available).
C8_Witness ==
    /\ ex.pc = "idle" /\ ret.kind = "nil"
    /\ Len(orders) = pre.norders
    /\ Available(pre.call, "XRP") >= TradeAmount

\* C9: a completed sell leg of amount a at fill price p leaves XRP locked as
\* the call found it, XRP total lower by a and the pair's stablecoin higher by
\* a*p; a completed buy leg leaves the stablecoin locked as the leg found it,
\* its total lower by the buy Trade's total_value and XRP total higher by a.
C9_SettlementAmounts ==
    /\ (ex.pc = "buy_lock" /\ trades[ex.sell].status = "completed") =>
          LET t == trades[ex.sell]
              s == Stable(t.pair)
          IN /\ locked = pre.call.locked
             /\ total["XRP"] = pre.call.total["XRP"] - t.amount
             /\ total[s] = pre.call.total[s] + t.amount * t.price
             /\ \A c \in Currencies \ {"XRP", s} : total[c] = pre.call.total[c]
    /\ (ex.pc = "idle" /\ ret.kind = "dict" /\ trades[ret.buy].status = "completed") =>
          LET t == trades[ret.buy]
              s == Stable(t.pair)
          IN /\ locked = pre.leg.locked
             /\ total[s] = pre.leg.total[s] - t.total_value
             /\ total["XRP"] = pre.leg.total["XRP"] + t.amount
             /\ \A c \in Currencies \ {"XRP", s} : total[c] = pre.leg.total[c]

\* C9 witness: both legs of one call completed, the buy at a fill price other
\* than the expected one.
C9_Witness ==
    /\ ex.pc = "idle" /\ ret.kind = "dict"
    /\ trades[ret.sell].status = "completed"
    /\ trades[ret.buy].status = "completed"
    /\ trades[ret.buy].total_value # trades[ret.buy].reserved

\* C10: while a circuit breaker is active the engine loop starts no trade
\* execution, and an active breaker stays active.
C10_BreakerHaltsExecution ==
    [][/\ (\E c \in Categories : breaker[c])
            => ~(loop.pc = "cycle" /\ loop'.pc = "execute")
       /\ \A c \in Categories : breaker[c] => breaker'[c]]_vars

C12_TimeoutCancelled ==
    [][/\ \A i \in 1..Len(trades) :
             (trades[i].status = "pending" /\ trades'[i].status = "timeout_cancelled") =>
                 LET o == classify_order_type(trades[i])
                     c == UnlockCurrency(trades[i])
                 IN /\ trades[i].age > timeout_configs(o)
                    /\ locked'[c] = locked[c] - trades[i].reserved
                    /\ timeout_counts[o] < limits.counts
                          => timeout_counts'[o] = timeout_counts[o] + 1
       /\ \A t \in Threads :
             sup'[t].op = "check_timeout" =>
                 \A k \in 1..Len(sup'[t].snap) :
                     LET trade == trades'[sup'[t].snap[k]]
                     IN trade.age > timeout_configs(classify_order_type(trade))]_vars

\* C13: check_trade_risk returns safe exactly when each of the six checks
\* passes; otherwise it returns unsafe with the reason of the first failing
\* check in the order daily volume, balance safety, pending orders,
\* volatility, spread, frequency, and has evaluated no check after that one.
C13_FirstFailureDecides ==
    (loop.pc = "returned" /\ loop.fn = "check_trade_risk") =>
        LET in == loop.input
            failing == { k \in 1..Len(RiskChecks) : ~RunCheck(RiskChecks[k], in).safe }
        IN /\ loop.result.safe <=> failing = {}
           /\ failing = {} => loop.result.evaluated = RiskChecks
           /\ failing # {} =>
                 LET first == CHOOSE k \in failing : \A j \in failing : k <= j
                 IN /\ loop.result.reason = RunCheck(RiskChecks[first], in).reason
                    /\ loop.result.evaluated = SubSeq(RiskChecks, 1, first)

\* C13 witness: the gate returned the reason of a failing pending-orders check
\* although the frequency check would have failed too.
C13_Witness ==
    /\ loop.pc = "returned" /\ loop.fn = "check_trade_risk"
    /\ loop.result.reason.text = "Too many pending orders"
    /\ ~check_trading_frequency(loop.input).safe
    /\ loop.result.evaluated = SubSeq(RiskChecks, 1, 3)

\* C14: the spread check passes exactly for the opportunities whose percentage
\* spread is at least the configured threshold (0.3% for spread_threshold
\* 0.003) and at most 5%; the detector's 0.385% passes.
C14_SpreadSanity ==
    (/\ loop.pc = "returned" /\ loop.fn = "_check_spread_validity"
     /\ loop.input.spread_threshold = SpreadThreshold) =>
        (loop.result.safe <=>
            /\ loop.input.spread_percentage >= 100 * loop.input.spread_threshold
            /\ loop.input.spread_percentage <= 100 * SuspiciousSpread)

\* C15: the balance check fails with the XRP reason, reporting the available
\* and the required amount, whenever the free XRP is below
\* amount * (1 + risk_buffer), and does not fail with it otherwise.
C15_BalanceSafety ==
    (/\ loop.pc = "returned" /\ loop.fn = "_check_balance_safety"
     /\ loop.input.raises # "balance_safety") =>
        LET in == loop.input
            short == in.xrp * 100 < in.amount * (100 + RiskBufferPct)
            xrp_reason == Reason("Insufficient XRP balance with safety margin",
                                 <<in.xrp * 100, in.amount * (100 + RiskBufferPct)>>)
        IN /\ short => ~loop.result.safe /\ loop.result.reason = xrp_reason
           /\ ~short => loop.result.reason.text # xrp_reason.text

\* C16: whenever _execute_opportunity returns after check_trade_risk answered
\* safe, execute_arbitrage_trade was called for the opportunity; after a failed
\* gate it was not.
C16_SafeGateExecutes ==
    [][(loop.pc = "gated" /\ loop'.pc # "gated") =>
           IF loop.risk_check = "safe"
           THEN calls' = calls + 1 /\ ex'.pc # "idle"
           ELSE calls' = calls /\ ex' = ex]_vars

RECURSIVE ReservedOf(_, _, _)
\* What the executor locked in currency c for the Trades ids.
ReservedOf(T, ids, c) ==
    IF ids = <<>> THEN 0
    ELSE (IF UnlockCurrency(T[Head(ids)]) = c THEN T[Head(ids)].reserved ELSE 0)
         + ReservedOf(T, Tail(ids), c)

\* C18: when stop() has returned, the loops were told to exit, no Trade is
\* pending, and what was locked for the Trades that were pending when stop()
\* was called is unlocked.
C18_StopReleasesPending ==
    loop.pc = "stopped" =>
        /\ \A i \in 1..Len(trades) : trades[i].status # "pending"
        /\ \A c \in Currencies :
              locked[c] = loop.at_stop.locked[c]
                            - ReservedOf(trades, loop.at_stop.pending, c)

\* C19: a detection produces an Opportunity only for a spread of at least
\* max(spread_threshold * 100, minimum profitable spread); the Opportunity
\* sells the higher-priced pair; 0.5210 against 0.5190 sells XRP/USDT;
\* identical prices produce none.
C19_DetectorThreshold ==
    (loop.pc = "returned" /\ loop.result.found) =>
        LET r == loop.result
            higher == Maximum(r.usdt_price, r.usdc_price)
            lower == Minimum(r.usdt_price, r.usdc_price)
        IN /\ SpreadPercentage(higher, lower)
                 >= Maximum(100 * loop.input.spread_threshold, MinimumProfitableSpread)
           /\ r.sell_price = higher /\ r.buy_price = lower
           /\ r.sell_price >= r.buy_price
           /\ r.usdt_price = 5210 /\ r.usdc_price = 5190 => r.sell_pair = "XRP/USDT"
           /\ r.usdt_price # r.usdc_price

C21_AmountWithinSafeMaximum ==
    (loop.pc = "returned" /\ loop.result.found) =>
        LET in == loop.input
            max_safe == calculate_max_safe_trade_amount(in)
        IN /\ loop.result.amount <= max_safe
           /\ max_safe >= 0
           /\ max_safe * 100 <= in.xrp * (100 - RiskBufferPct)
           /\ max_safe <= DailyMaxVolume - in.today_volume
           /\ max_safe <= TradeAmount

C23_LedgerSerializable ==
    loop.pc = "callers" =>
        /\ locked["XRP"] <= total["XRP"]
        /\ locked["XRP"]
              = TradeAmount * Cardinality({ c \in Callers : loop.at[c] = "holding" })

C25_UnhealthyOnlyOnConnectivity ==
    (loop.pc = "returned" /\ loop.fn = "check_system_health") =>
        LET in == loop.input
            out == loop.result
        IN /\ (\E c \in Currencies : in.balances[c].locked > in.balances[c].total)
                 => out.warnings \cup out.errors # {}
           /\ in.old_pending > 0 => out.warnings \cup out.errors # {}
           /\ ~out.healthy => ~in.db_ok

\* C26: when the connector raises while a timed-out order is handled, the
\* order becomes timeout_error and its reserved balance is unlocked, and the
\* pass of the supervisor goes on: no thread leaves its loop on the exception.
C26_ConnectorErrorUnlocks ==
    [][\A i \in 1..Len(trades) :
          (trades[i].status = "pending" /\ trades'[i].status = "timeout_error") =>
              LET c == UnlockCurrency(trades[i])
              IN /\ locked'[c] = locked[c] - trades[i].reserved
                 /\ \A t \in Threads : sup'[t].op \in {"none", "check_timeout",
                                                        "update_pending"}]_vars

\* C27: a leg whose Trade is not persisted leaves the ledger as the leg found
\* it: when the leg ends in its handler, also after its order was closed and
\* the commit raised, total and locked are what they were before the leg.
C27_RolledBackLegRestoresLedger ==
    [][(/\ ex.pc \in {"sell_poll", "buy_poll"}
        /\ ex'.pc = "idle"
        /\ trades' = trades)
          => [total |-> total', locked |-> locked'] = pre.leg]_vars

\* C30: every order the executor created on the exchange has a persisted
\* Trade that carries its order id, once the leg that created it has ended.
C30_CreatedOrderHasTrade ==
    ex.pc \in {"idle", "buy_lock", "buy_submit"} =>
        \A o \in 1..Len(orders) :
            \E i \in 1..Len(trades) : trades[i].order_id = o

\* C28: the ledger settlement of a Trade is applied exactly once: a pass of
\* the supervisor, on the monitor thread or in the engine's maintenance,
\* settles no Trade that is already stored as completed, and the pass that
\* completes a timed-out Trade moves its XRP amount on the ledger.
C28_SettledOnce ==
    [][\A t \in {"monitor", "engine"} :
          (sup[t].op \in {"check_timeout", "update_pending"} /\ sup'[t] # sup[t]) =>
              LET i == Head(sup[t].snap)
                  trade == trades[i]
              IN /\ total' # total => trade.status # "completed"
                 /\ (/\ sup[t].op = "check_timeout"
                     /\ trade.status = "pending"
                     /\ trades'[i].status = "completed")
                       => total'["XRP"] = total["XRP"]
                             + (IF trade.trade_type = "buy" THEN trade.amount
                                ELSE 0 - trade.amount)]_vars

\* C29: for every buy Trade waiting on the exchange, the amount the
\* supervisor or a cancel operation would unlock (total_value) is the amount
\* locked at submission (amount times the expected price).
C29_UnlockEqualsLocked ==
    \A i \in 1..Len(trades) :
        (trades[i].trade_type = "buy" /\ trades[i].status = "pending")
            => UnlockAmount(trades[i]) = trades[i].reserved

\* C31: the balance-safety check passes only if the stablecoin of the buy
\* pair covers the required buy value with the risk_buffer margin, whichever
\* pair the opportunity buys on; the other stablecoin does not count.
C31_BuySideStablecoin ==
    (/\ loop.pc = "returned" /\ loop.fn = "_check_balance_safety"
     /\ loop.result.safe) =>
        \A buy_pair \in Pairs :
            LET balance == IF Stable(buy_pair) = "USDT" THEN loop.input.usdt
                           ELSE loop.input.usdc
            IN ~BelowRequiredStable(balance, loop.input.amount)

C34_VolatilityAndErrors ==
    (loop.pc = "returned" /\ loop.fn = "check_trade_risk") =>
        LET in == loop.input
            out == loop.result
            volatile == /\ Len(in.history) >= 5
                        /\ (SeqMax(in.history) - SeqMin(in.history)) * 100
                              > 2 * SeqMin(in.history)
            others(skip) == \A k \in 1..Len(RiskChecks) :
                               RiskChecks[k] # skip => RunCheck(RiskChecks[k], in).safe
            earlier == \A k \in 1..3 : RunCheck(RiskChecks[k], in).safe
        IN /\ (earlier /\ volatile /\ in.raises # "volatility")
                 => ~out.safe /\ out.reason.text = "High price volatility detected"
           /\ (Len(in.history) < 5 \/ in.raises = "volatility")
                 => (out.safe <=> others("volatility"))
           /\ in.raises = "frequency" => (out.safe <=> others("frequency"))
           /\ in.raises \in {"daily_volume", "balance_safety", "pending_orders"}
                 => ~out.safe

\* C34 witness: the gate answered safe although the history could not be
\* read and its prices moved by more than 2%.
C34_Witness ==
    /\ loop.pc = "returned" /\ loop.fn = "check_trade_risk"
    /\ loop.input.raises = "volatility"
    /\ Len(loop.input.history) >= 5
    /\ (SeqMax(loop.input.history) - SeqMin(loop.input.history)) * 100
          > 2 * SeqMin(loop.input.history)
    /\ loop.result.safe

\* C35: the timeout counter of an order type is incremented at most once for
\* a Trade: it never exceeds the number of Trades of that type.
C35_CountedOncePerTrade ==
    \A o \in OrderTypes :
        timeout_counts[o]
            <= Cardinality({ i \in 1..Len(trades) : classify_order_type(trades[i]) = o })


C38_LiquidityAndNetProfit ==
    (/\ loop.pc = "returned"
     /\ loop.fn \in {"_detect_arbitrage_opportunity_enhanced", "_fast_spread_check"}
     /\ loop.result.found) =>
        LET o == loop.result
            volume == IF o.source = "ws" THEN loop.input.ws_volume
                      ELSE loop.input.poll_volume
        IN /\ volume >= MinVolume24h
           /\ o.amount * (o.sell_price - o.buy_price) * 10000
                 - o.amount * (o.sell_price + o.buy_price) * 6 >= 10000000


\* C39: while is_running() answers true the main loop is alive, and never
\* more than one loop thread is: start() on a stopped engine starts exactly
\* one, start() on a running engine starts none, and a loop that has ended
\* by itself has left running false, so that a later start() starts a loop.
C39_RunningMeansLoopAlive ==
    /\ [](loop.running => loop.thread = "alive")
    /\ [](loop.earlier = 0)
    /\ [][loop'.starts = loop.starts + 1 =>
             IF loop.running THEN loop'.thread = loop.thread
             ELSE loop'.thread = "alive" /\ loop'.running]_vars

\* C40: the handler of a price stream never makes more than
\* max_reconnect_attempts failed attempts in a row; it ends only after that
\* many or after the manager was stopped; and its failure count goes back to
\* 0 only by a successful connection.
C40_ReconnectsBounded ==
    /\ [](loop.failed <= MaxReconnectAttempts)
    /\ [](loop.at = "ended" =>
             \/ loop.failed = MaxReconnectAttempts
             \/ ~loop.is_running)
    /\ [][(loop.reconnect_count # 0 /\ loop'.reconnect_count = 0) =>
             (loop'.at = "listening" /\ loop'.connected)]_vars

\* C40 witness: the handler has ended with the manager still running, after
\* max_reconnect_attempts failures in a row that followed a connection on
\* which messages were handled.
C40_Witness ==
    /\ loop.at = "ended" /\ loop.is_running
    /\ loop.failed = MaxReconnectAttempts
    /\ loop.messages > 0

====
